---- MODULE Spec2Model ----
(***************************************************************************)
(* Model of mbipy.src.normal_integration.fourier.kottler.kottler: the      *)
(* Fourier-domain integration of a gradient field (gy, gx) after Kottler   *)
(* et al.  One call is a straight-line program; every statement of the     *)
(* function body is one action, and the program counter pc names the next  *)
(* statement.                                                              *)
(*                                                                         *)
(* Numbers.  Array entries are exact: a complex value is a Gaussian        *)
(* rational [re, im, den]; a value that involves the factor 2*pi is a      *)
(* Laurent polynomial in tau = 2*pi with exponents -1, 0, 1 whose          *)
(* coefficients are Gaussian rationals.  The transform lengths of the      *)
(* model are 1, 2 and 4, for which every twiddle factor of fft2 / ifft2 is *)
(* one of 1, -1, i, -i, so the transforms are computed exactly.  Floating  *)
(* point rounding is not modelled.                                         *)
(***************************************************************************)
EXTENDS Integers, Sequences, FiniteSets, TLC

\* ---------------------------------------------------------------- bounds
MaxVal == 1      \* entries of gy and gx are drawn from 0 .. MaxVal
MaxBatch == 2    \* extent of the leading (batch) axis is 1 .. MaxBatch
MaxCells == 2    \* an input array has at most MaxCells entries
MaxDim == 6      \* extents of the frequency-grid specification SpecGrid

\* extents y, x of the trailing axes: transform lengths 1, 2 (no padding)
\* and 2, 4 (antisym padding)
Extents == {1, 2}

\* ------------------------------------------------------- Python values
PyNone == [t |-> "NoneType", v |-> "None"]
PyStr(s) == [t |-> "str", v |-> s]
PyInt(s) == [t |-> "int", v |-> s]
PyBool(s) == [t |-> "bool", v |-> s]

\* truth value of a Python object (None, str, int, bool)
Truthy(p) ==
  CASE p.t = "NoneType" -> FALSE
    [] p.t = "str" -> p.v # ""
    [] p.t = "int" -> p.v # "0"
    [] p.t = "bool" -> p.v = "True"

Pads == {PyNone, PyStr("antisym"), PyStr("symmetric"), PyStr(""), PyInt("0"),
         PyBool("False")}
Workers == {PyNone, PyInt("1"), PyInt("4")}
Dtypes == {"int64", "float64", "complex128"}

\* ------------------------------------------------- Gaussian rationals
Abs(n) == IF n < 0 THEN -n ELSE n

RECURSIVE GCD(_, _)
GCD(a, b) == IF b = 0 THEN a ELSE GCD(b, a % b)

\* (re + i*im) / den in lowest terms, den > 0
GR(re, im, den) ==
  LET s == IF den < 0 THEN -1 ELSE 1
      g == GCD(GCD(Abs(re), Abs(im)), Abs(den))
  IN [re |-> (s * re) \div g, im |-> (s * im) \div g, den |-> Abs(den) \div g]

GZero == [re |-> 0, im |-> 0, den |-> 1]
GOne == [re |-> 1, im |-> 0, den |-> 1]
GIsZero(a) == a.re = 0 /\ a.im = 0
GAdd(a, b) == GR(a.re * b.den + b.re * a.den, a.im * b.den + b.im * a.den,
                 a.den * b.den)
GMul(a, b) == GR(a.re * b.re - a.im * b.im, a.re * b.im + a.im * b.re,
                 a.den * b.den)
\* a / b for b # 0
GDiv(a, b) ==
  LET n == b.re * b.re + b.im * b.im
  IN GR((a.re * b.re + a.im * b.im) * b.den, (a.im * b.re - a.re * b.im) * b.den,
        a.den * n)
GReal(a) == GR(a.re, 0, a.den)

\* ------------------------- values with the factor tau = 2*pi: m*tau^-1 + z + p*tau
Exps == {-1, 0, 1}
TZero == [e \in Exps |-> GZero]
TConst(a) == [e \in Exps |-> IF e = 0 THEN a ELSE GZero]
TIsZero(t) == \A e \in Exps : GIsZero(t[e])
TAdd(s, t) == [e \in Exps |-> GAdd(s[e], t[e])]
TScale(a, t) == [e \in Exps |-> GMul(a, t[e])]
TReal(t) == [e \in Exps |-> GReal(t[e])]
\* a * tau
TTimesTau(a) == [e \in Exps |-> IF e = 1 THEN a ELSE GZero]

\* the result of a division by zero (nan / inf entries)
NaN == [e \in Exps |-> [re |-> 0, im |-> 0, den |-> 0]]
IsNaN(t) == t[0].den = 0

\* complex division n / d of a Gaussian rational n by d, where d is zero or
\* has a single term c * tau^k
TDiv(n, d) ==
  IF TIsZero(d) THEN NaN
  ELSE LET k == CHOOSE e \in Exps : ~GIsZero(d[e])
       IN [e \in Exps |-> IF e = -k THEN GDiv(n, d[k]) ELSE GZero]

\* ---------------------------------------------------------------- arrays
\* An array is [shape, data]: shape is the tuple of extents, data maps each
\* 0-based index tuple to the entry.  Input arrays also carry their dtype.
Idx3(shape) == (0 .. shape[1] - 1) \X (0 .. shape[2] - 1) \X (0 .. shape[3] - 1)
Idx2(shape) == (0 .. shape[1] - 1) \X (0 .. shape[2] - 1)
NoArray == [shape |-> <<0, 0, 0>>, data |-> <<>>]
NoVector == <<>>

Shapes(b) == {s \in {b} \X Extents \X Extents : s[1] * s[2] * s[3] <= MaxCells}
InputArrays(b) ==
  UNION {{[dtype |-> d, shape |-> s, data |-> f] :
             d \in Dtypes, f \in [Idx3(s) -> 0 .. MaxVal]} : s \in Shapes(b)}

\* xp.result_type(gy, gx) with numpy's promotion
result_type(d1, d2) ==
  IF "complex128" \in {d1, d2} THEN "complex128"
  ELSE IF "float64" \in {d1, d2} THEN "float64"
  ELSE "int64"

\* xp.isdtype(dtype, "real floating")
isdtype_real_floating(d) == d \in {"float32", "float64"}

\* check_shapes(gx, gy): the common trailing (y, x), or a ShapeError
check_shapes(a, b) ==
  IF <<a.shape[2], a.shape[3]>> = <<b.shape[2], b.shape[3]>>
  THEN [ok |-> TRUE, y |-> a.shape[2], x |-> a.shape[3]]
  ELSE [ok |-> FALSE, y |-> 0, x |-> 0]

\* one field extended to (..., 2y, 2x): the original block at the low
\* indices, mirrored blocks with signs sx (along x), sy (along y)
Reflect(a, sx, sy) ==
  LET b == a.shape[1]
      y == a.shape[2]
      x == a.shape[3]
      sh == <<b, 2 * y, 2 * x>>
  IN [shape |-> sh,
      data |-> [idx \in Idx3(sh) |->
         LET i == IF idx[2] < y THEN idx[2] ELSE 2 * y - 1 - idx[2]
             j == IF idx[3] < x THEN idx[3] ELSE 2 * x - 1 - idx[3]
             s == (IF idx[2] < y THEN 1 ELSE sy) * (IF idx[3] < x THEN 1 ELSE sx)
         IN s * a.data[<<idx[1], i, j>>]]]

\* antisym(gy=gy, gx=gx): gx is odd along x and even along y, gy is odd
\* along y and even along x
antisym(gy_, gx_) == [gy |-> Reflect(gy_, 1, -1), gx |-> Reflect(gx_, -1, 1)]

\* xp.fft.fftfreq(n): k/n for k < ceil(n/2), (k - n)/n above
fftfreq(n) ==
  [k \in 0 .. n - 1 |-> IF k < ((n - 1) \div 2) + 1 THEN GR(k, 0, n) ELSE GR(k - n, 0, n)]

\* length of a 0-based vector
VLen(v) == Cardinality(DOMAIN v)

\* the transform length without the doubling
FreqLen_Unpadded(n, pad_) == n

\* transform length of an axis of original extent n: "2 * n if pad else n"
FreqLen(n, pad_) == IF Truthy(pad_) THEN 2 * n ELSE n

\* e^(-2 pi i k / n) for n in {1, 2, 4}
Twiddle(n, k) ==
  LET q == ((4 \div n) * k) % 4
  IN CASE q = 0 -> [re |-> 1, im |-> 0, den |-> 1]
       [] q = 1 -> [re |-> 0, im |-> -1, den |-> 1]
       [] q = 2 -> [re |-> -1, im |-> 0, den |-> 1]
       [] q = 3 -> [re |-> 0, im |-> 1, den |-> 1]
GConj(a) == [re |-> a.re, im |-> -a.im, den |-> a.den]

RECURSIVE GSumTo(_, _)
GSumTo(F, n) == IF n = 0 THEN GZero ELSE GAdd(GSumTo(F, n - 1), F[n])
RECURSIVE TSumTo(_, _)
TSumTo(F, n) == IF n = 0 THEN TZero ELSE TAdd(TSumTo(F, n - 1), F[n])

\* gx + 1j * gy
Combine(gx_, gy_) ==
  [shape |-> gx_.shape,
   data |-> [idx \in Idx3(gx_.shape) |-> GR(gx_.data[idx], gy_.data[idx], 1)]]

\* fft2(a, axes=(-2, -1), workers=w): the forward transform of the last two
\* axes of every batch entry; w is a parallelism hint of the backend
fft2(a, w) ==
  LET Y == a.shape[2]
      X == a.shape[3]
  IN [shape |-> a.shape,
      data |-> [idx \in Idx3(a.shape) |->
         GSumTo([n \in 1 .. Y * X |->
                   LET i == (n - 1) \div X
                       j == (n - 1) % X
                   IN GMul(GMul(Twiddle(Y, idx[2] * i), Twiddle(X, idx[3] * j)),
                           a.data[<<idx[1], i, j>>])], Y * X)]]

\* ifft2(a, axes=(-2, -1), workers=w): the inverse transform, scaled by
\* 1 / (Y * X); a nan entry makes every entry of its batch entry nan
ifft2(a, w) ==
  LET Y == a.shape[2]
      X == a.shape[3]
  IN [shape |-> a.shape,
      data |-> [idx \in Idx3(a.shape) |->
         IF \E i \in 0 .. Y - 1, j \in 0 .. X - 1 : IsNaN(a.data[<<idx[1], i, j>>])
         THEN NaN
         ELSE TScale(GR(1, 0, Y * X),
                TSumTo([n \in 1 .. Y * X |->
                   LET i == (n - 1) \div X
                       j == (n - 1) % X
                   IN TScale(GMul(GConj(Twiddle(Y, idx[2] * i)),
                                  GConj(Twiddle(X, idx[3] * j))),
                             a.data[<<idx[1], i, j>>])], Y * X))]]

\* 1j * 2.0 * xp.pi * (fx + fy): the factor 1j of fy left out
FDen_NoImag(fx_, fy_) ==
  LET sh == <<VLen(fy_), VLen(fx_)>>
  IN [shape |-> sh,
      data |-> [idx \in Idx2(sh) |->
         TTimesTau(GMul([re |-> 0, im |-> 1, den |-> 1],
                        GAdd(fx_[idx[2]], fy_[idx[1]])))]]

\* 1j * 2.0 * xp.pi * (fx + 1j * fy), fy a column and fx a row
FDen(fx_, fy_) ==
  LET sh == <<VLen(fy_), VLen(fx_)>>
  IN [shape |-> sh,
      data |-> [idx \in Idx2(sh) |->
         TTimesTau(GMul([re |-> 0, im |-> 1, den |-> 1],
                        GAdd(fx_[idx[2]], GMul([re |-> 0, im |-> 1, den |-> 1],
                                               fy_[idx[1]]))))]]

\* setitem(a, (..., 0, 0), value, xp): a copy of a with the entries whose
\* last two indices are 0 replaced
setitem(a, value) ==
  [shape |-> a.shape,
   data |-> [idx \in DOMAIN a.data |->
      IF idx[Len(idx) - 1] = 0 /\ idx[Len(idx)] = 0 THEN value ELSE a.data[idx]]]

\* do the trailing extents (Y, X) of num and the shape of den broadcast
Broadcastable(num, den) ==
  /\ num.shape[2] = den.shape[1] \/ 1 \in {num.shape[2], den.shape[1]}
  /\ num.shape[3] = den.shape[2] \/ 1 \in {num.shape[3], den.shape[2]}

Max(a, b) == IF a < b THEN b ELSE a
Min(a, b) == IF a < b THEN a ELSE b

\* f_num / f_den with broadcasting of f_den over the batch axis
Divide(num, den) ==
  LET sh == <<num.shape[1], Max(num.shape[2], den.shape[1]),
              Max(num.shape[3], den.shape[2])>>
  IN [shape |-> sh,
      data |-> [idx \in Idx3(sh) |->
         TDiv(num.data[<<idx[1], IF num.shape[2] = 1 THEN 0 ELSE idx[2],
                         IF num.shape[3] = 1 THEN 0 ELSE idx[3]>>],
              den.data[<<IF den.shape[1] = 1 THEN 0 ELSE idx[2],
                         IF den.shape[2] = 1 THEN 0 ELSE idx[3]>>])]]

\* a.real without the crop
RealCrop_NoCrop(a, y_, x_) ==
  [shape |-> a.shape,
   data |-> [idx \in Idx3(a.shape) |->
               IF IsNaN(a.data[idx]) THEN NaN ELSE TReal(a.data[idx])]]

\* a.real[..., :y, :x]
RealCrop(a, y_, x_) ==
  LET sh == <<a.shape[1], Min(y_, a.shape[2]), Min(x_, a.shape[3])>>
  IN [shape |-> sh,
      data |-> [idx \in Idx3(sh) |->
                  IF IsNaN(a.data[idx]) THEN NaN ELSE TReal(a.data[idx])]]

\* ---------------------------------------------------------------- errors
NoErr == [type |-> "none", msg |-> <<>>]
DtypeError == [type |-> "ValueError", msg |-> <<"Input arrays must be real-valued.">>]
ShapeError == [type |-> "ShapeError", msg |-> <<>>]
PadError(p) == [type |-> "ValueError", msg |-> <<"Invalid value for pad: ", p.v>>]
BroadcastError == [type |-> "ValueError", msg |-> <<"operands could not be broadcast together">>]

NoCall == [shape |-> <<0, 0, 0>>, workers |-> PyNone]

\* ----------------------------------------------------------------- state
VARIABLES
  in_gy, in_gx,      \* the caller's arrays
  pad, workers,      \* the other two arguments
  pc,                \* the statement to execute next
  gy, gx,            \* the local names gy, gx (rebound by the padding)
  dtype, y, x,       \* locals of lines 55 and 60
  fx, fy, f_num, f_den, f_phase,
  result,            \* the returned array
  err,               \* the exception that ended the call
  trace,             \* the collaborators called so far, in order
  fft2_call, ifft2_call   \* shape of the array and workers passed to fft2 / ifft2

vars == <<in_gy, in_gx, pad, workers, pc, gy, gx, dtype, y, x, fx, fy, f_num,
          f_den, f_phase, result, err, trace, fft2_call, ifft2_call>>

args == <<in_gy, in_gx, pad, workers>>

Init ==
  /\ \E b \in 1 .. MaxBatch :
       /\ in_gy \in InputArrays(b)
       /\ in_gx \in InputArrays(b)
  /\ pad \in Pads
  /\ workers \in Workers
  /\ pc = "dtype"
  /\ gy = in_gy
  /\ gx = in_gx
  /\ dtype = "unset"
  /\ y = 0
  /\ x = 0
  /\ fx = NoVector
  /\ fy = NoVector
  /\ f_num = NoArray
  /\ f_den = NoArray
  /\ f_phase = NoArray
  /\ result = NoArray
  /\ err = NoErr
  /\ trace = <<>>
  /\ fft2_call = NoCall
  /\ ifft2_call = NoCall

\* the dtype check applied to gy alone instead of the promoted dtype
CheckDtype_GyOnly ==
  /\ pc = "dtype"
  /\ dtype' = result_type(gy.dtype, gx.dtype)
  /\ trace' = trace \o <<"array_namespace", "result_type", "isdtype">>
  /\ IF isdtype_real_floating(gy.dtype)
     THEN pc' = "get_dfts" /\ err' = err
     ELSE pc' = "done" /\ err' = DtypeError
  /\ UNCHANGED <<args, gy, gx, y, x, fx, fy, f_num, f_den, f_phase, result,
                 fft2_call, ifft2_call>>

\* pad validated ahead of the dtype check
CheckDtype_PadFirst ==
  /\ pc = "dtype"
  /\ dtype' = result_type(gy.dtype, gx.dtype)
  /\ trace' = trace \o <<"array_namespace", "result_type", "isdtype">>
  /\ IF pad # PyStr("antisym") /\ pad # PyNone
     THEN pc' = "done" /\ err' = PadError(pad)
     ELSE IF isdtype_real_floating(dtype')
     THEN pc' = "get_dfts" /\ err' = err
     ELSE pc' = "done" /\ err' = DtypeError
  /\ UNCHANGED <<args, gy, gx, y, x, fx, fy, f_num, f_den, f_phase, result,
                 fft2_call, ifft2_call>>

\* lines 54-58: xp = array_namespace(gy, gx); dtype = xp.result_type(gy, gx);
\* raise ValueError unless dtype is real floating
CheckDtype ==
  /\ pc = "dtype"
  /\ dtype' = result_type(gy.dtype, gx.dtype)
  /\ trace' = trace \o <<"array_namespace", "result_type", "isdtype">>
  /\ IF isdtype_real_floating(dtype')
     THEN pc' = "get_dfts" /\ err' = err
     ELSE pc' = "done" /\ err' = DtypeError
  /\ UNCHANGED <<args, gy, gx, y, x, fx, fy, f_num, f_den, f_phase, result,
                 fft2_call, ifft2_call>>

\* line 59: fft2, ifft2 = get_dfts(xp)
GetDfts ==
  /\ pc = "get_dfts"
  /\ trace' = Append(trace, "get_dfts")
  /\ pc' = "check_shapes"
  /\ UNCHANGED <<args, gy, gx, dtype, y, x, fx, fy, f_num, f_den, f_phase, result,
                 err, fft2_call, ifft2_call>>

\* line 60: y, x = check_shapes(gx, gy)
CheckShapes ==
  /\ pc = "check_shapes"
  /\ trace' = Append(trace, "check_shapes")
  /\ LET r == check_shapes(gx, gy)
     IN IF r.ok
        THEN y' = r.y /\ x' = r.x /\ pc' = "pad" /\ err' = err
        ELSE y' = y /\ x' = x /\ pc' = "done" /\ err' = ShapeError
  /\ UNCHANGED <<args, gy, gx, dtype, fx, fy, f_num, f_den, f_phase, result,
                 fft2_call, ifft2_call>>

\* "elif not pad" in place of "elif pad is None"
PadDispatch_Falsy ==
  /\ pc = "pad"
  /\ IF pad = PyStr("antisym")
     THEN /\ gy' = antisym(gy, gx).gy
          /\ gx' = antisym(gy, gx).gx
          /\ trace' = Append(trace, "antisym")
          /\ pc' = "fx"
          /\ err' = err
     ELSE IF ~Truthy(pad)
     THEN /\ pc' = "fx"
          /\ UNCHANGED <<gy, gx, trace, err>>
     ELSE /\ pc' = "done"
          /\ err' = PadError(pad)
          /\ UNCHANGED <<gy, gx, trace>>
  /\ UNCHANGED <<args, dtype, y, x, fx, fy, f_num, f_den, f_phase, result,
                 fft2_call, ifft2_call>>

\* the padding applied to every truthy pad, validated afterwards
PadDispatch_PadFirst ==
  /\ pc = "pad"
  /\ IF Truthy(pad)
     THEN /\ gy' = antisym(gy, gx).gy
          /\ gx' = antisym(gy, gx).gx
          /\ trace' = Append(trace, "antisym")
     ELSE UNCHANGED <<gy, gx, trace>>
  /\ IF pad = PyStr("antisym") \/ pad = PyNone
     THEN pc' = "fx" /\ err' = err
     ELSE pc' = "done" /\ err' = PadError(pad)
  /\ UNCHANGED <<args, dtype, y, x, fx, fy, f_num, f_den, f_phase, result,
                 fft2_call, ifft2_call>>

\* lines 62-68: the three-way decision on pad
PadDispatch ==
  /\ pc = "pad"
  /\ IF pad = PyStr("antisym")
     THEN /\ gy' = antisym(gy, gx).gy
          /\ gx' = antisym(gy, gx).gx
          /\ trace' = Append(trace, "antisym")
          /\ pc' = "fx"
          /\ err' = err
     ELSE IF pad = PyNone
     THEN /\ pc' = "fx"
          /\ UNCHANGED <<gy, gx, trace, err>>
     ELSE /\ pc' = "done"
          /\ err' = PadError(pad)
          /\ UNCHANGED <<gy, gx, trace>>
  /\ UNCHANGED <<args, dtype, y, x, fx, fy, f_num, f_den, f_phase, result,
                 fft2_call, ifft2_call>>

\* line 70: fx = xp.astype(xp.fft.fftfreq(2 * x if pad else x), dtype, copy=False)
BuildFx ==
  /\ pc = "fx"
  /\ fx' = fftfreq(FreqLen(x, pad))
  /\ trace' = Append(trace, "fftfreq")
  /\ pc' = "fy"
  /\ UNCHANGED <<args, gy, gx, dtype, y, x, fy, f_num, f_den, f_phase, result, err,
                 fft2_call, ifft2_call>>

\* line 71: fy = xp.astype(xp.fft.fftfreq(2 * y if pad else y)[:, None], dtype, copy=False)
BuildFy ==
  /\ pc = "fy"
  /\ fy' = fftfreq(FreqLen(y, pad))
  /\ trace' = Append(trace, "fftfreq")
  /\ pc' = "f_num"
  /\ UNCHANGED <<args, gy, gx, dtype, y, x, fx, f_num, f_den, f_phase, result, err,
                 fft2_call, ifft2_call>>

\* line 72: f_num = fft2(gx + 1j * gy, axes=(-2, -1), workers=workers)
ForwardTransform ==
  /\ pc = "f_num"
  /\ f_num' = fft2(Combine(gx, gy), workers)
  /\ fft2_call' = [shape |-> gx.shape, workers |-> workers]
  /\ trace' = Append(trace, "fft2")
  /\ pc' = "f_den"
  /\ UNCHANGED <<args, gy, gx, dtype, y, x, fx, fy, f_den, f_phase, result, err,
                 ifft2_call>>

\* line 73: f_den = 1j * 2.0 * xp.pi * (fx + 1j * fy)
BuildDen ==
  /\ pc = "f_den"
  /\ f_den' = FDen(fx, fy)
  /\ pc' = "set_den"
  /\ UNCHANGED <<args, gy, gx, dtype, y, x, fx, fy, f_num, f_phase, result, err,
                 trace, fft2_call, ifft2_call>>

\* line 75: f_den = setitem(f_den, (..., 0, 0), 1.0, xp)
SetDen ==
  /\ pc = "set_den"
  /\ f_den' = setitem(f_den, TConst(GOne))
  /\ trace' = Append(trace, "setitem")
  /\ pc' = "div"
  /\ UNCHANGED <<args, gy, gx, dtype, y, x, fx, fy, f_num, f_phase, result, err,
                 fft2_call, ifft2_call>>

\* line 76: f_phase = f_num / f_den
DivideStep ==
  /\ pc = "div"
  /\ IF Broadcastable(f_num, f_den)
     THEN f_phase' = Divide(f_num, f_den) /\ pc' = "set_phase" /\ err' = err
     ELSE f_phase' = f_phase /\ pc' = "done" /\ err' = BroadcastError
  /\ UNCHANGED <<args, gy, gx, dtype, y, x, fx, fy, f_num, f_den, result, trace,
                 fft2_call, ifft2_call>>

\* the copy returned by setitem not bound to f_phase
SetPhase_Dropped ==
  /\ pc = "set_phase"
  /\ f_phase' = f_phase
  /\ trace' = Append(trace, "setitem")
  /\ pc' = "ifft"
  /\ UNCHANGED <<args, gy, gx, dtype, y, x, fx, fy, f_num, f_den, result, err,
                 fft2_call, ifft2_call>>

\* line 77: f_phase = setitem(f_phase, (..., 0, 0), 0.0, xp)
SetPhase ==
  /\ pc = "set_phase"
  /\ f_phase' = setitem(f_phase, TZero)
  /\ trace' = Append(trace, "setitem")
  /\ pc' = "ifft"
  /\ UNCHANGED <<args, gy, gx, dtype, y, x, fx, fy, f_num, f_den, result, err,
                 fft2_call, ifft2_call>>

\* ifft2 called without the workers argument
InverseReturn_NoWorkers ==
  /\ pc = "ifft"
  /\ result' = RealCrop(ifft2(f_phase, PyNone), y, x)
  /\ ifft2_call' = [shape |-> f_phase.shape, workers |-> PyNone]
  /\ trace' = Append(trace, "ifft2")
  /\ pc' = "done"
  /\ UNCHANGED <<args, gy, gx, dtype, y, x, fx, fy, f_num, f_den, f_phase, err,
                 fft2_call>>

\* line 79: return ifft2(f_phase, axes=(-2, -1), workers=workers).real[..., :y, :x]
InverseReturn ==
  /\ pc = "ifft"
  /\ result' = RealCrop(ifft2(f_phase, workers), y, x)
  /\ ifft2_call' = [shape |-> f_phase.shape, workers |-> workers]
  /\ trace' = Append(trace, "ifft2")
  /\ pc' = "done"
  /\ UNCHANGED <<args, gy, gx, dtype, y, x, fx, fy, f_num, f_den, f_phase, err,
                 fft2_call>>

Next ==
  \/ CheckDtype
  \/ GetDfts
  \/ CheckShapes
  \/ PadDispatch
  \/ BuildFx
  \/ BuildFy
  \/ ForwardTransform
  \/ BuildDen
  \/ SetDen
  \/ DivideStep
  \/ SetPhase
  \/ InverseReturn

Spec == Init /\ [][Next]_vars

\* ------------------------------------------- the call as a pure function
\* kottler(gy, gx, pad, workers): the error raised or the array returned
kottler(gy_, gx_, pad_, w) ==
  IF ~isdtype_real_floating(result_type(gy_.dtype, gx_.dtype))
  THEN [err |-> DtypeError, result |-> NoArray]
  ELSE LET cs == check_shapes(gx_, gy_)
       IN IF ~cs.ok
          THEN [err |-> ShapeError, result |-> NoArray]
          ELSE IF pad_ # PyStr("antisym") /\ pad_ # PyNone
          THEN [err |-> PadError(pad_), result |-> NoArray]
          ELSE LET p == IF pad_ = PyStr("antisym") THEN antisym(gy_, gx_)
                        ELSE [gy |-> gy_, gx |-> gx_]
                   num == fft2(Combine(p.gx, p.gy), w)
                   den == setitem(FDen(fftfreq(FreqLen(cs.x, pad_)),
                                       fftfreq(FreqLen(cs.y, pad_))), TConst(GOne))
               IN IF ~Broadcastable(num, den)
                  THEN [err |-> BroadcastError, result |-> NoArray]
                  ELSE [err |-> NoErr,
                        result |-> RealCrop(ifft2(setitem(Divide(num, den), TZero), w),
                                            cs.y, cs.x)]

\* ------------------------------ the frequency grid for every extent
\* The grid stage (lines 70-76) on its own, entered after a successful
\* validation of fields of trailing shape (y, x) with y, x in 1 .. MaxDim;
\* the spectrum f_num is drawn from the constant spectra 0 and 1 + i.
GridArray(yy, xx) ==
  [dtype |-> "float64", shape |-> <<1, yy, xx>>, data |-> [idx \in Idx3(<<1, yy, xx>>) |-> 0]]

InitGrid ==
  /\ \E yy \in 1 .. MaxDim, xx \in 1 .. MaxDim :
       /\ in_gy = GridArray(yy, xx)
       /\ in_gx = GridArray(yy, xx)
       /\ y = yy
       /\ x = xx
  /\ pad \in {PyNone, PyStr("antisym")}
  /\ workers \in Workers
  /\ pc = "fx"
  /\ gy = IF pad = PyStr("antisym") THEN antisym(in_gy, in_gx).gy ELSE in_gy
  /\ gx = IF pad = PyStr("antisym") THEN antisym(in_gy, in_gx).gx ELSE in_gx
  /\ dtype = "float64"
  /\ fx = NoVector
  /\ fy = NoVector
  /\ f_num = NoArray
  /\ f_den = NoArray
  /\ f_phase = NoArray
  /\ result = NoArray
  /\ err = NoErr
  /\ trace = <<"array_namespace", "result_type", "isdtype", "get_dfts", "check_shapes">>
               \o (IF pad = PyStr("antisym") THEN <<"antisym">> ELSE <<>>)
  /\ fft2_call = NoCall
  /\ ifft2_call = NoCall

\* line 72 with the transform's values left open: a spectrum of the shape
\* of gx + 1j * gy
GridSpectrum ==
  /\ pc = "f_num"
  /\ \E c \in {GZero, [re |-> 1, im |-> 1, den |-> 1]} :
       f_num' = [shape |-> gx.shape, data |-> [idx \in Idx3(gx.shape) |-> c]]
  /\ fft2_call' = [shape |-> gx.shape, workers |-> workers]
  /\ trace' = Append(trace, "fft2")
  /\ pc' = "f_den"
  /\ UNCHANGED <<args, gy, gx, dtype, y, x, fx, fy, f_den, f_phase, result, err,
                 ifft2_call>>

NextGrid ==
  \/ BuildFx
  \/ BuildFy
  \/ GridSpectrum
  \/ BuildDen
  \/ SetDen
  \/ DivideStep

SpecGrid == InitGrid /\ [][NextGrid]_vars

\* ------------------------------------------------------------ properties
InTrace(name) == \E n \in 1 .. Len(trace) : trace[n] = name
FirstIndex(name) == CHOOSE n \in 1 .. Len(trace) :
                      trace[n] = name /\ \A m \in 1 .. n - 1 : trace[m] # name
Returned == pc = "done" /\ err = NoErr
Antisym == PyStr("antisym")
RealFloatingInputs == isdtype_real_floating(result_type(in_gy.dtype, in_gx.dtype))
CompatibleShapes == check_shapes(in_gx, in_gy).ok
ValidPad == pad \in {PyNone, Antisym}
OrigY == in_gy.shape[2]
OrigX == in_gy.shape[3]

\* C1: a call that returns gives an array whose trailing two extents are
\* the original (y, x): with pad None the transform has extent (y, x), with
\* pad "antisym" it has extent (2y, 2x) and the result is cropped to (y, x).
C1_ShapePreserved ==
  Returned =>
    /\ <<result.shape[2], result.shape[3]>> = <<OrigY, OrigX>>
    /\ result.shape[1] = in_gy.shape[1]
    /\ DOMAIN result.data = Idx3(<<in_gy.shape[1], OrigY, OrigX>>)
    /\ <<ifft2_call.shape[2], ifft2_call.shape[3]>> =
         IF pad = Antisym THEN <<2 * OrigY, 2 * OrigX>> ELSE <<OrigY, OrigX>>

C1_Witness ==
  /\ Returned
  /\ pad = Antisym
  /\ <<OrigY, OrigX>> = <<1, 2>>
  /\ <<ifft2_call.shape[2], ifft2_call.shape[3]>> = <<2, 4>>
  /\ <<result.shape[2], result.shape[3]>> = <<1, 2>>

\* C2: when the promoted dtype of gy and gx is not real floating, the call
\* ends with the ValueError "Input arrays must be real-valued." for every
\* pad, and nothing but the dtype inspection has been called: no get_dfts,
\* check_shapes, antisym, fftfreq, fft2 or ifft2.
C2_DtypeRejectedFirst ==
  ~RealFloatingInputs =>
    /\ pc \in {"dtype", "done"}
    /\ pc = "done" =>
         /\ err = DtypeError
         /\ trace = <<"array_namespace", "result_type", "isdtype">>
         /\ result = NoArray

C2_Witness ==
  /\ pc = "done"
  /\ err = DtypeError
  /\ pad = Antisym
  /\ in_gy.dtype = "complex128"
  /\ in_gx.dtype = "float64"

\* C3 as stated: every call with a pad outside {None, "antisym"} ends with
\* the ValueError "Invalid value for pad: <pad>".
C3_Original ==
  (pc = "done" /\ ~ValidPad) => err = PadError(pad)

\* C3 amended: with real floating inputs of compatible trailing shape, every
\* call with a pad outside {None, "antisym"} ends at the pad dispatch with
\* the ValueError "Invalid value for pad: <pad>" and returns nothing.
C3_InvalidPadRejected ==
  (~ValidPad /\ RealFloatingInputs /\ CompatibleShapes) =>
    /\ pc \in {"dtype", "get_dfts", "check_shapes", "pad", "done"}
    /\ pc = "done" =>
         /\ err = PadError(pad)
         /\ err.msg[2] = pad.v
         /\ result = NoArray

C3_Witness ==
  /\ pc = "done"
  /\ pad = PyStr("")
  /\ err = PadError(PyStr(""))
  /\ RealFloatingInputs
  /\ CompatibleShapes

\* C4: a call that ends in an error is terminal and free of side effects:
\* the error ends the call (no step follows it), antisym, fft2 and ifft2
\* have not been called, nothing is returned, and no step of any call
\* changes the caller's gy and gx.
C4_ErrorsTerminal ==
  [][/\ in_gy' = in_gy
     /\ in_gx' = in_gx
     /\ err # NoErr => UNCHANGED vars
     /\ err' # NoErr =>
          /\ pc' = "done"
          /\ result' = NoArray
          /\ \A n \in 1 .. Len(trace') : trace'[n] \notin {"antisym", "fft2", "ifft2"}
          /\ fft2_call' = NoCall
          /\ ifft2_call' = NoCall
          /\ gy' = in_gy
          /\ gx' = in_gx]_vars

C4_Witness ==
  /\ pc = "done"
  /\ err = ShapeError
  /\ pad = Antisym
  /\ ~InTrace("antisym")
  /\ result = NoArray

\* C5: the phase spectrum handed to ifft2 has the entry 0.0 at index (0, 0)
\* of the trailing axes of every batch entry, for both pad modes, whatever
\* the quotient f_num[..., 0, 0] / f_den[0, 0] was.
C5_ZeroFrequencyFixed ==
  (pc = "ifft" \/ (Returned /\ InTrace("ifft2"))) =>
    \A k \in 0 .. f_phase.shape[1] - 1 : f_phase.data[<<k, 0, 0>>] = TZero

C5_Witness ==
  /\ pc = "ifft"
  /\ f_phase.shape[1] = 2
  /\ \A k \in {0, 1} :
       /\ TDiv(f_num.data[<<k, 0, 0>>], f_den.data[<<0, 0>>]) # TZero
       /\ f_phase.data[<<k, 0, 0>>] = TZero

\* C6: workers reaches fft2 and ifft2 unchanged and nothing else: the
\* outcome of the call (error or returned array) is the one the function
\* gives for each workers in {None, 1, 4}.
C6_WorkersInvariance ==
  /\ InTrace("fft2") => fft2_call.workers = workers
  /\ InTrace("ifft2") => ifft2_call.workers = workers
  /\ pc = "done" =>
       \A w \in Workers : kottler(in_gy, in_gx, pad, w) = [err |-> err, result |-> result]

C6_Witness ==
  /\ Returned
  /\ workers = PyInt("4")
  /\ fft2_call.workers = PyInt("4")
  /\ ifft2_call.workers = PyInt("4")
  /\ kottler(in_gy, in_gx, pad, PyNone).result = result
  /\ \E idx \in DOMAIN result.data : ~TIsZero(result.data[idx])

\* C8: fx + i*fy is zero at index (0, 0) only; after f_den[0, 0] is set to
\* 1.0 no entry of f_den is zero and no entry of f_num / f_den is the
\* result of a division by zero.
C8_NoZeroDivisor ==
  /\ pc = "set_den" =>
       \A idx \in DOMAIN f_den.data : TIsZero(f_den.data[idx]) <=> idx = <<0, 0>>
  /\ pc = "div" =>
       /\ f_den.data[<<0, 0>>] = TConst(GOne)
       /\ \A idx \in DOMAIN f_den.data : ~TIsZero(f_den.data[idx])
  /\ pc = "set_phase" =>
       \A idx \in DOMAIN f_phase.data : ~IsNaN(f_phase.data[idx])

C8_Witness ==
  /\ pc = "set_phase"
  /\ pad = Antisym
  /\ <<y, x>> = <<3, 5>>
  /\ f_den.shape = <<6, 10>>
  /\ f_num.data[<<0, 0, 0>>] # GZero
  /\ \A idx \in DOMAIN f_phase.data : ~IsNaN(f_phase.data[idx])

\* C9: antisym is called exactly when pad is "antisym" and the validation
\* has passed, before the first fftfreq, and the frequency grids have the
\* extents of the array passed to fft2: (2y, 2x) with pad "antisym",
\* (y, x) with pad None.
C9_GridMatchesTransform ==
  /\ InTrace("antisym") <=>
       /\ pad = Antisym
       /\ RealFloatingInputs /\ CompatibleShapes
       /\ pc \notin {"dtype", "get_dfts", "check_shapes", "pad"}
  /\ InTrace("antisym") =>
       /\ InTrace("check_shapes") /\ FirstIndex("check_shapes") < FirstIndex("antisym")
       /\ InTrace("fftfreq") => FirstIndex("antisym") < FirstIndex("fftfreq")
  /\ InTrace("fft2") =>
       /\ VLen(fx) = fft2_call.shape[3]
       /\ VLen(fy) = fft2_call.shape[2]
       /\ <<fft2_call.shape[2], fft2_call.shape[3]>> =
            IF pad = Antisym THEN <<2 * OrigY, 2 * OrigX>> ELSE <<OrigY, OrigX>>

C9_Witness ==
  /\ pc = "f_den"
  /\ pad = Antisym
  /\ InTrace("antisym")
  /\ <<OrigY, OrigX>> = <<2, 1>>
  /\ VLen(fy) = 4 /\ VLen(fx) = 2
  /\ fft2_call.shape = <<1, 4, 2>>

\* C10: a call ends in at most one error, chosen by the order dtype, shape,
\* pad: the dtype error whenever the promoted dtype is not real floating,
\* else the ShapeError whenever the shapes are incompatible, else the
\* invalid-pad error whenever pad is invalid, else no error.
C10_ErrorOrder ==
  pc = "done" =>
    err = IF ~RealFloatingInputs THEN DtypeError
          ELSE IF ~CompatibleShapes THEN ShapeError
          ELSE IF ~ValidPad THEN PadError(pad)
          ELSE NoErr

C10_Witness ==
  /\ pc = "done"
  /\ ~RealFloatingInputs
  /\ ~CompatibleShapes
  /\ ~ValidPad
  /\ err = DtypeError
====
